---- MODULE Spec2Model ----
(***************************************************************************)
(* Model of run_examples.py, the driver of the Qdrant quickstart: it       *)
(* probes the service, optionally starts it with Docker, optionally        *)
(* installs dependencies, runs three example scripts and the test suite    *)
(* under timeouts, and offers to stop the container.                       *)
(*                                                                         *)
(* The Docker engine is the environment of the driver.  It is modelled as  *)
(* a table of containers that carry the name "qdrant-quickstart"; the      *)
(* three commands the driver issues (stop, rm, run) act on that table.     *)
(***************************************************************************)
EXTENDS Integers, Sequences, FiniteSets, TLC

VARIABLES
    pc,            \* position of main(): probe, ask_start, start, deps, tasks, wait, banner, cleanup, done
    runs,          \* number of invocations of the script so far
    reachable,     \* what check_qdrant_running() returned in this invocation
    started,       \* start_qdrant() returned True in this invocation
    startupFailure,\* which startup step failed in this invocation ("none" if none)
    containers,    \* the engine's containers named qdrant-quickstart: records [id, state]
    nextId,        \* identity the engine gives to the next container it creates
    startLog,      \* what the last start_qdrant() call saw and returned
    stopLog,       \* what the stop_qdrant() call of this invocation saw and returned
    stopsOnInstance, \* stop_qdrant() calls made since the engine last launched a container
    exists,        \* os.path.exists of each task's path
    i,             \* index of the next task of the loop
    proc,          \* the child process of the task being run, or last run: [task, state, dur]
    launched,      \* the tasks a process was spawned for, in order
    report,        \* the outcomes printed so far, in order
    banner,        \* the closing message printed by main ("" until then)
    cleanupCalls,  \* times the teardown prompt was consulted in this invocation
    stopCalls,     \* times stop_qdrant() was called in this invocation
    exitKind,      \* how main() ended: "none", "returned", "raised"
    exitStatus,    \* exit status of the process once it ended
    found,         \* the engine's containers as this invocation found them
    teardown       \* the answer at the teardown prompt: "none" until asked, "yes", "no"

vars == <<pc, runs, reachable, started, startupFailure, containers, nextId, startLog, stopLog,
          stopsOnInstance,
          exists, i, proc, launched, report, banner, cleanupCalls, stopCalls,
          exitKind, exitStatus, found, teardown>>

(***************************************************************************)
(* Bounds and program constants                                            *)
(***************************************************************************)
MaxRuns == 2

ExampleTimeout == 60

TestsTimeout == 120

Examples == <<"Basic Example", "Document Search", "Advanced Features">>

TestSuite == "Tests"

Tasks == Examples \o <<TestSuite>>

TaskSet == {Tasks[k] : k \in 1..Len(Tasks)}

\* Wall-clock running times a child process may need, in seconds.
Durations == {30, 60, 90, 120, 150}

ExitCodes == {0, 1}

\* Answers typed at a prompt.
Responses == {"y", "Y", "n", ""}

\* str.lower() on the answers.
Lower(s) == IF s = "Y" THEN "y" ELSE s

(***************************************************************************)
(* The container engine                                                    *)
(***************************************************************************)
Live(cs) == {c \in cs : c.state = "running"}

\* docker stop qdrant-quickstart.  fault: the command fails for a reason of
\* the engine's own.  Returns the table and the command's error.
DockerStop(cs, fault) ==
    IF fault \/ cs = {}
    THEN [cs |-> cs, err |-> "nonzero"]
    ELSE [cs |-> {[c EXCEPT !.state = "exited"] : c \in cs}, err |-> "ok"]

\* docker rm qdrant-quickstart: removes a container that is not running.
DockerRm(cs, fault) ==
    IF fault \/ cs = {} \/ Live(cs) # {}
    THEN [cs |-> cs, err |-> "nonzero"]
    ELSE [cs |-> {}, err |-> "ok"]

\* docker run -d --name qdrant-quickstart ...: the name must be free.
DockerRun(cs, fault, id) ==
    IF fault \/ cs # {}
    THEN [cs |-> cs, err |-> "nonzero"]
    ELSE [cs |-> cs \cup {[id |-> id, state |-> "running"]}, err |-> "ok"]

(***************************************************************************)
(* start_qdrant and stop_qdrant                                            *)
(***************************************************************************)
start_qdrant_without_removal(cs, engine, fStop, fRm, fRun, id) ==
    IF ~engine
    THEN [cs |-> cs, ok |-> FALSE]
    ELSE LET s3 == DockerRun(cs, fRun, id)
         IN  [cs |-> s3.cs, ok |-> (s3.err = "ok")]

\* engine: the docker program is installed.  Without it every subprocess.run
\* raises FileNotFoundError: the inner try swallows it for stop and rm, the
\* outer handler turns it into False for run.  stop and rm run with
\* check=False, so their exit codes are not looked at.
start_qdrant(cs, engine, fStop, fRm, fRun, id) ==
    IF ~engine
    THEN [cs |-> cs, ok |-> FALSE]
    ELSE LET s1 == DockerStop(cs, fStop)
             s2 == DockerRm(s1.cs, fRm)
             s3 == DockerRun(s2.cs, fRun, id)
         IN  [cs |-> s3.cs, ok |-> (s3.err = "ok")]

\* The error the body of stop_qdrant's try block ends with: stop and rm run
\* with check=True, so the first failing command ends the block.
StopBody(cs, engine, fStop, fRm) ==
    IF ~engine
    THEN [cs |-> cs, err |-> "notfound"]
    ELSE LET s1 == DockerStop(cs, fStop)
         IN  IF s1.err # "ok" THEN s1 ELSE DockerRm(s1.cs, fRm)

StopCatchesNothing(err) == FALSE

StopCatchesCalledProcessError(err) == err = "nonzero"

\* The bare except of stop_qdrant swallows every error.
StopCatches(err) == TRUE

stop_qdrant(cs, engine, fStop, fRm) ==
    LET b == StopBody(cs, engine, fStop, fRm)
    IN  [cs |-> b.cs, err |-> b.err, raised |-> (b.err # "ok" /\ ~StopCatches(b.err))]

\* install_dependencies: uv pip install with check=True.  A non-zero exit is
\* caught and gives False; a missing uv program raises FileNotFoundError,
\* which the function does not catch.
InstallOutcomes == {"ok", "nonzero", "uv_missing"}

AfterDepsIgnoringFailure(ok) == "tasks"

\* main returns when install_dependencies gives False (or raises).
AfterDeps(ok) == IF ok THEN "tasks" ELSE "done"

PathCheckSkipped(e) == TRUE

\* main calls run_example or run_tests only when os.path.exists says so.
PathCheck(e) == e

install_dependencies(outcome) ==
    [ok |-> (outcome = "ok"), raised |-> (outcome = "uv_missing")]

(***************************************************************************)
(* run_example and run_tests                                               *)
(***************************************************************************)
NoProc == [task |-> "", state |-> "none", dur |-> 0]

\* subprocess.run(..., timeout=d) on a process that was spawned and needs dur
\* seconds and would exit with code.  late: at dur = d, whether the deadline
\* fires first.  On expiry subprocess.run kills the child and raises
\* TimeoutExpired.
RunUnderTimeout(d, dur, code, late) ==
    IF dur > d \/ (dur = d /\ late)
    THEN [status |-> "TimedOut", exitCode |-> <<>>, state |-> "killed"]
    ELSE [status |-> (IF code = 0 THEN "Completed" ELSE "Failed"),
          exitCode |-> <<code>>, state |-> "exited"]

run_example(dur, code, late) == RunUnderTimeout(ExampleTimeout, dur, code, late)

run_tests_example_timeout(dur, code, late) ==
    RunUnderTimeout(ExampleTimeout, dur, code, late)

run_tests(dur, code, late) == RunUnderTimeout(TestsTimeout, dur, code, late)

RunTask(t, dur, code, late) ==
    IF t = TestSuite THEN run_tests(dur, code, late) ELSE run_example(dur, code, late)

AfterTaskStopOnFailure(k, status) ==
    IF k >= Len(Tasks) \/ status # "Completed" THEN "banner" ELSE "tasks"

\* The loop of main goes on to the next task whatever the last one printed.
AfterTask(k, status) == IF k >= Len(Tasks) THEN "banner" ELSE "tasks"

NextIndexRetryingFailure(k, status) ==
    IF status \in {"Failed", "TimedOut"} THEN k ELSE k + 1

\* The for loop takes each example once, and the tests step follows it once:
\* no outcome makes main run a task again.
NextIndex(k, status) == k + 1

TeardownAlways(response) == TRUE

\* if response.lower() == 'y': stop_qdrant().  Nothing else is asked: not
\* whether this invocation started the container.
TeardownAccepted(response) == Lower(response) = "y"

\* The closing message of main is the same whatever the tasks printed.
ClosingMessage(rep) == "All examples and tests completed!"

\* Exit status of the interpreter: 0 when main() returns, 1 on a traceback.
ExitStatusOf(kind) == IF kind = "raised" THEN 1 ELSE 0

(***************************************************************************)
(* The steps of main                                                       *)
(***************************************************************************)
NoStart == [called |-> FALSE, ok |-> FALSE, clean |-> FALSE, priorLive |-> FALSE,
            prior |-> {}, id |-> 0]

NoStop == [err |-> "ok", raised |-> FALSE, clean |-> FALSE, pre |-> "absent"]

StateOf(cs) ==
    IF cs = {} THEN "absent" ELSE IF Live(cs) # {} THEN "running" ELSE "exited"

InitContainers == {{}, {[id |-> 0, state |-> "running"]}, {[id |-> 0, state |-> "exited"]}}

Init ==
    /\ pc = "probe"
    /\ runs = 1
    /\ reachable = FALSE
    /\ started = FALSE
    /\ startupFailure = "none"
    /\ containers \in InitContainers
    /\ nextId = 1
    /\ startLog = NoStart
    /\ stopLog = NoStop
    /\ stopsOnInstance = 0
    /\ exists \in [TaskSet -> BOOLEAN]
    /\ i = 1
    /\ proc = NoProc
    /\ launched = <<>>
    /\ report = <<>>
    /\ banner = ""
    /\ cleanupCalls = 0
    /\ stopCalls = 0
    /\ exitKind = "none"
    /\ exitStatus = <<>>
    /\ found = containers
    /\ teardown = "none"

\* main ends: by return, or by an exception nobody caught.
Exit(kind) ==
    /\ pc' = "done"
    /\ exitKind' = kind
    /\ exitStatus' = <<ExitStatusOf(kind)>>

\* if not check_qdrant_running(): ...
Probe ==
    /\ UNCHANGED <<found, teardown>>
    /\ pc = "probe"
    /\ \E up \in BOOLEAN :
          /\ reachable' = up
          /\ pc' = IF up THEN "deps" ELSE "ask_start"
    /\ UNCHANGED <<runs, started, startupFailure, containers, nextId, startLog, stopLog,
                   stopsOnInstance, exists, i, proc, launched, report, banner,
                   cleanupCalls, stopCalls, exitKind, exitStatus>>

\* response = input("Would you like to start Qdrant with Docker? (y/n): ")
AskStart ==
    /\ UNCHANGED <<found, teardown>>
    /\ pc = "ask_start"
    /\ \E response \in Responses :
          IF Lower(response) = "y"
          THEN /\ pc' = "start"
               /\ UNCHANGED <<startupFailure, exitKind, exitStatus>>
          ELSE /\ startupFailure' = "declined"
               /\ Exit("returned")
    /\ UNCHANGED <<runs, reachable, started, containers, nextId, startLog, stopLog,
                   stopsOnInstance, exists, i, proc, launched, report, banner,
                   cleanupCalls, stopCalls>>

\* if not start_qdrant(): return
StartQdrant ==
    /\ UNCHANGED <<found, teardown>>
    /\ pc = "start"
    /\ \E engine, fStop, fRm, fRun \in BOOLEAN :
          LET r == start_qdrant(containers, engine, fStop, fRm, fRun, nextId)
          IN  /\ containers' = r.cs
              /\ nextId' = IF r.ok THEN nextId + 1 ELSE nextId
              /\ started' = r.ok
              /\ stopsOnInstance' = IF r.ok THEN 0 ELSE stopsOnInstance
              /\ startLog' = [called |-> TRUE, ok |-> r.ok,
                              clean |-> (engine /\ ~fStop /\ ~fRm /\ ~fRun),
                              priorLive |-> (Live(containers) # {}),
                              prior |-> {c.id : c \in containers},
                              id |-> nextId]
              /\ IF r.ok
                 THEN /\ pc' = "deps"
                      /\ UNCHANGED <<startupFailure, exitKind, exitStatus>>
                 ELSE /\ startupFailure' = "start_failed"
                      /\ Exit("returned")
    /\ UNCHANGED <<runs, reachable, stopLog, exists, i, proc, launched, report, banner,
                   cleanupCalls, stopCalls>>

\* The uv detection and install_dependencies().
Deps ==
    /\ UNCHANGED <<found, teardown>>
    /\ pc = "deps"
    /\ \E usingUv \in BOOLEAN, outcome \in InstallOutcomes :
          LET r == IF usingUv THEN [ok |-> TRUE, raised |-> FALSE]
                              ELSE install_dependencies(outcome)
          IN  /\ startupFailure' = IF r.ok THEN "none"
                                   ELSE IF r.raised THEN "deps_raised" ELSE "deps_failed"
              /\ pc' = AfterDeps(r.ok)
              /\ exitKind' = IF pc' # "done" THEN "none"
                             ELSE IF r.raised THEN "raised" ELSE "returned"
              /\ exitStatus' = IF pc' # "done" THEN <<>> ELSE <<ExitStatusOf(exitKind')>>
    /\ UNCHANGED <<runs, reachable, started, containers, nextId, startLog, stopLog,
                   stopsOnInstance, exists, i, proc, launched, report, banner,
                   cleanupCalls, stopCalls>>

\* One turn of the loop over the examples, or the tests step, up to the point
\* where subprocess.run waits for its child.
LaunchTask ==
    /\ UNCHANGED <<found, teardown>>
    /\ pc = "tasks"
    /\ i <= Len(Tasks)
    /\ LET t == Tasks[i]
       IN  \/ /\ ~PathCheck(exists[t])
              /\ report' = Append(report, [task |-> t, status |-> "NotFound", exitCode |-> <<>>])
              /\ i' = NextIndex(i, "NotFound")
              /\ pc' = AfterTask(i, "NotFound")
              /\ UNCHANGED <<proc, launched>>
           \/ /\ PathCheck(exists[t])
              /\ report' = Append(report, [task |-> t, status |-> "Failed", exitCode |-> <<>>])
              /\ proc' = [task |-> t, state |-> "spawn_failed", dur |-> 0]
              /\ i' = NextIndex(i, "Failed")
              /\ pc' = AfterTask(i, "Failed")
              /\ UNCHANGED launched
           \/ /\ PathCheck(exists[t])
              /\ proc' = [task |-> t, state |-> "running", dur |-> 0]
              /\ launched' = Append(launched, t)
              /\ pc' = "wait"
              /\ UNCHANGED <<report, i>>
    /\ UNCHANGED <<runs, reachable, started, startupFailure, containers, nextId, startLog,
                   stopLog, stopsOnInstance, exists, banner, cleanupCalls, stopCalls,
                   exitKind, exitStatus>>

\* subprocess.run returns or raises TimeoutExpired; the outcome is printed.
FinishTask ==
    /\ UNCHANGED <<found, teardown>>
    /\ pc = "wait"
    /\ \E dur \in Durations, code \in ExitCodes, late \in BOOLEAN :
          LET r == RunTask(proc.task, dur, code, late)
          IN  /\ proc' = [task |-> proc.task, state |-> r.state, dur |-> dur]
              /\ report' = Append(report, [task |-> proc.task, status |-> r.status,
                                           exitCode |-> r.exitCode])
              /\ i' = NextIndex(i, r.status)
              /\ pc' = AfterTask(i, r.status)
    /\ UNCHANGED <<runs, reachable, started, startupFailure, containers, nextId, startLog,
                   stopLog, stopsOnInstance, exists, launched, banner, cleanupCalls,
                   stopCalls, exitKind, exitStatus>>

\* print("All examples and tests completed!")
Banner ==
    /\ UNCHANGED <<found, teardown>>
    /\ pc = "banner"
    /\ banner' = ClosingMessage(report)
    /\ pc' = "cleanup"
    /\ UNCHANGED <<runs, reachable, started, startupFailure, containers, nextId, startLog,
                   stopLog, stopsOnInstance, exists, i, proc, launched, report,
                   cleanupCalls, stopCalls, exitKind, exitStatus>>

\* response = input("Would you like to stop the Qdrant container? (y/n): ")
\* if response.lower() == 'y': stop_qdrant()
Cleanup ==
    /\ UNCHANGED found
    /\ pc = "cleanup"
    /\ cleanupCalls' = cleanupCalls + 1
    /\ \E response \in Responses, engine, fStop, fRm \in BOOLEAN :
          /\ teardown' = IF Lower(response) = "y" THEN "yes" ELSE "no"
          /\ IF TeardownAccepted(response)
             THEN LET r == stop_qdrant(containers, engine, fStop, fRm)
               IN  /\ containers' = r.cs
                   /\ stopCalls' = stopCalls + 1
                   /\ stopsOnInstance' = stopsOnInstance + 1
                   /\ stopLog' = [err |-> r.err, raised |-> r.raised,
                                  clean |-> (engine /\ ~fStop /\ ~fRm),
                                  pre |-> StateOf(containers)]
                   /\ Exit(IF r.raised THEN "raised" ELSE "returned")
             ELSE /\ Exit("returned")
                  /\ UNCHANGED <<containers, stopCalls, stopsOnInstance, stopLog>>
    /\ UNCHANGED <<runs, reachable, started, startupFailure, nextId, startLog, exists, i,
                   proc, launched, report, banner>>

\* The script is run again.
Restart ==
    /\ pc = "done"
    /\ runs < MaxRuns
    /\ runs' = runs + 1
    /\ pc' = "probe"
    /\ reachable' = FALSE
    /\ started' = FALSE
    /\ startupFailure' = "none"
    /\ startLog' = NoStart
    /\ stopLog' = NoStop
    /\ i' = 1
    /\ proc' = NoProc
    /\ launched' = <<>>
    /\ report' = <<>>
    /\ banner' = ""
    /\ cleanupCalls' = 0
    /\ stopCalls' = 0
    /\ exitKind' = "none"
    /\ exitStatus' = <<>>
    /\ found' = containers
    /\ teardown' = "none"
    /\ UNCHANGED <<containers, nextId, stopsOnInstance, exists>>

Next ==
    \/ Probe
    \/ AskStart
    \/ StartQdrant
    \/ Deps
    \/ LaunchTask
    \/ FinishTask
    \/ Banner
    \/ Cleanup
    \/ Restart

Spec == Init /\ [][Next]_vars

(***************************************************************************)
(* Properties                                                              *)
(***************************************************************************)
Last(seq) == seq[Len(seq)]

Launched == {launched[k] : k \in 1..Len(launched)}

IndexOf(t) == CHOOSE k \in 1..Len(Tasks) : Tasks[k] = t

AllOk(rep) ==
    \A k \in 1..Len(rep) : rep[k].status = "Completed" /\ rep[k].exitCode = <<0>>

\* C1: in every invocation in which start_qdrant succeeded, the teardown
\* prompt (and with it the optional stop) has been reached exactly once when
\* the invocation ends.
C1_CleanupOnceWhenStarted ==
    (pc = "done" /\ started) => cleanupCalls = 1

\* C2: once a startup step has failed (start declined, start failed,
\* dependency installation failed), no task is ever launched and nothing is
\* reported in that invocation.
C2_StartupFailureRunsNoTask ==
    startupFailure # "none" =>
        /\ launched = <<>>
        /\ report = <<>>
        /\ proc = NoProc
        /\ pc = "done"

C2_Witness ==
    /\ pc = "done"
    /\ started
    /\ startupFailure = "deps_failed"
    /\ report = <<>>

\* C3: the exit status is 0 exactly when the run was not aborted and every
\* attempted task completed with exit code 0.
C3_ExitStatusReflectsSuccess ==
    pc = "done" =>
        ((exitStatus = <<0>>) <=> (startupFailure = "none" /\ AllOk(report)))

\* C4: after a successful startup every task is attempted, one at a time and
\* in the configured order, whatever the earlier outcomes; the outcomes are
\* recorded in that order.
C4_AllTasksAttemptedInOrder ==
    /\ \A k \in 1..Len(report) : report[k].task = Tasks[k]
    /\ \A a, b \in 1..Len(launched) :
          a < b => IndexOf(launched[a]) < IndexOf(launched[b])
    /\ pc \in {"tasks", "wait"} => Len(report) = i - 1
    /\ proc.state = "running" => (pc = "wait" /\ proc.task = Tasks[i])
    /\ (startupFailure = "none" /\ pc \in {"banner", "cleanup", "done"}) =>
          Len(report) = Len(Tasks)

C4_Witness ==
    /\ pc = "done"
    /\ Len(report) = Len(Tasks)
    /\ report[1].status = "TimedOut"
    /\ report[2].status = "NotFound"
    /\ report[3].status = "Failed" /\ report[3].exitCode = <<>>
    /\ report[4].status = "Completed"

\* C5: the overall result the driver reports at its end (its closing message
\* and its exit status) is success if and only if every recorded outcome is
\* Completed with exit code 0.
C5_OverallSuccessIffAllCompleted ==
    (pc = "done" /\ banner # "") =>
        ((banner = "All examples and tests completed!" /\ exitStatus = <<0>>)
            <=> AllOk(report))

\* C6: at most one instance named qdrant-quickstart is live at any time; a
\* start that meets no engine fault succeeds whether or not an instance of the
\* name existed, and after a successful start the only instance is the one
\* just launched: no earlier instance is left.
C6_OneLiveInstance ==
    /\ Cardinality(Live(containers)) <= 1
    /\ (startLog.called /\ startLog.clean) => startLog.ok
    /\ (started /\ stopCalls = 0) =>
          /\ containers = {[id |-> startLog.id, state |-> "running"]}
          /\ startLog.id \notin startLog.prior

C6_Witness ==
    /\ runs >= 2
    /\ started
    /\ startLog.priorLive
    /\ startLog.prior = {1}
    /\ startLog.id = 2
    /\ containers = {[id |-> 2, state |-> "running"]}

\* C7: a second stop_qdrant on the same instance raises no error, and after
\* it the instance is not running (when the instance was already stopped, or
\* the engine met no fault in that call).
C7_StopIdempotent ==
    (stopCalls >= 1 /\ stopsOnInstance >= 2) =>
        /\ ~stopLog.raised
        /\ exitKind = "returned"
        /\ (stopLog.pre # "running" \/ stopLog.clean) => Live(containers) = {}

C7_Witness ==
    /\ pc = "done"
    /\ stopCalls = 1
    /\ stopsOnInstance >= 2
    /\ stopLog.pre = "absent"
    /\ stopLog.err = "nonzero"
    /\ containers = {}

\* C8: whatever way stop or rm fails in stop_qdrant (non-zero exit, docker
\* missing), no error reaches main, which ends normally.
C8_CleanupSwallowsErrors ==
    (stopCalls >= 1 /\ stopLog.err # "ok") =>
        /\ ~stopLog.raised
        /\ pc = "done"
        /\ exitKind = "returned"
        /\ exitStatus = <<0>>

C8_Witness ==
    /\ pc = "done"
    /\ started
    /\ stopCalls = 1
    /\ stopLog.err = "notfound"
    /\ exitKind = "returned"

ClaimedTimeout(t) == IF t = TestSuite THEN 120 ELSE 60

\* C9: a process that outlives its task's timeout (60 s for an example,
\* 120 s for the tests) is killed and the outcome is TimedOut without exit
\* code; a process that ends before the deadline is not reported TimedOut.
C9_TimeoutOutcome ==
    (proc.state \in {"killed", "exited"} /\ report # <<>>
        /\ Last(report).task = proc.task) =>
        /\ proc.dur > ClaimedTimeout(proc.task) =>
              /\ Last(report).status = "TimedOut"
              /\ Last(report).exitCode = <<>>
              /\ proc.state = "killed"
        /\ proc.dur < ClaimedTimeout(proc.task) =>
              /\ Last(report).status # "TimedOut"
              /\ Last(report).exitCode # <<>>
              /\ proc.state = "exited"

C9_Witness ==
    /\ Len(report) = 2
    /\ report[1].status = "Completed"
    /\ proc = [task |-> Tasks[2], state |-> "killed", dur |-> 90]
    /\ report[2] = [task |-> Tasks[2], status |-> "TimedOut", exitCode |-> <<>>]

\* C10: a task whose path does not exist is reported NotFound and no process
\* is spawned for it; the tasks whose paths exist are still run.
C10_NotFoundWithoutSpawn ==
    /\ \A k \in 1..Len(report) :
          ~exists[report[k].task] =>
              /\ report[k].status = "NotFound"
              /\ report[k].task \notin Launched
    /\ proc.task \in TaskSet => exists[proc.task]
    /\ (startupFailure = "none" /\ pc = "done") =>
          \A k \in 1..Len(Tasks) :
              exists[Tasks[k]] =>
                  /\ Len(report) >= k
                  /\ report[k].status # "NotFound"
                  /\ (Tasks[k] \in Launched \/ report[k].exitCode = <<>>)

C10_Witness ==
    /\ pc = "done"
    /\ ~exists[Tasks[2]] /\ ~exists[TestSuite]
    /\ exists[Tasks[1]] /\ exists[Tasks[3]]
    /\ Len(report) = Len(Tasks)
    /\ report[2].status = "NotFound"
    /\ report[3].status = "Completed"
    /\ report[4].status = "NotFound"
    /\ launched = <<Tasks[1], Tasks[3]>>

Reported == {report[k].task : k \in 1..Len(report)}

TerminalStatuses == {"Completed", "TimedOut", "Failed", "NotFound"}

\* What one step of an invocation does to the tasks: outcomes already printed
\* stay as they are, a process is spawned only for a task that has neither
\* been launched nor got an outcome, a running process ends in exactly one
\* outcome of its own task, and a step that prints an outcome leaves main
\* running (no exception has escaped run_example or run_tests).
TaskStep ==
    /\ runs' = runs =>
          /\ Len(report') >= Len(report)
          /\ Len(report') <= Len(report) + 1
          /\ \A k \in 1..Len(report) : report'[k] = report[k]
    /\ (proc.state # "running" /\ proc'.state = "running") =>
          /\ proc'.task \notin Launched
          /\ proc'.task \notin Reported
          /\ launched' = Append(launched, proc'.task)
          /\ report' = report
    /\ proc.state = "running" =>
          /\ proc'.state \in {"exited", "killed"}
          /\ proc'.task = proc.task
          /\ Len(report') = Len(report) + 1
          /\ Last(report').task = proc.task
          /\ Last(report').status \in {"Completed", "TimedOut", "Failed"}
          /\ launched' = launched
    /\ Len(report') > Len(report) =>
          /\ Last(report').status \in TerminalStatuses
          /\ Last(report').task \notin Reported
          /\ exitKind' = "none"
          /\ pc' \in {"tasks", "banner"}

\* C11: within one invocation a task is launched at most once, gets exactly
\* one terminal outcome that never changes, never runs again after it, and
\* no failure of running it (a spawn error included) ends main by an
\* exception.
C11_TaskLifecycle == [][TaskStep]_vars

C11_Witness ==
    /\ pc = "done"
    /\ exitKind = "returned"
    /\ Len(report) = Len(Tasks)
    /\ report[1].status = "Failed" /\ report[1].exitCode = <<>>
    /\ report[2].status = "TimedOut"
    /\ report[3].status = "Failed" /\ report[3].exitCode = <<1>>
    /\ report[4].status = "Completed"
    /\ launched = <<Tasks[2], Tasks[3], Tasks[4]>>

====
